---- MODULE Spec2Model ----
(***************************************************************************)
(* Authentication and authorization pipeline of the asset-manager backend:  *)
(* the authenticate middleware, the role and permission guards, the user  *)
(* routes that create or (de)activate Principals, and the Principal and   *)
(* audit stores they share.  One slot of `req` is one Express request;     *)
(* every action is the code a request runs between two awaits.            *)
(***************************************************************************)
EXTENDS Integers, FiniteSets, Sequences, TLC

\* ------------------------------------------------------------------ bounds
NReq == 2          \* requests that can be in flight together
MaxUsers == 3      \* rows the Principal store can hold (_id 1..MaxUsers)
MaxAudit == 2      \* distinct events the audit store holds; full, its writes fail
MaxInits == 3      \* admin.initializeApp calls followed in one process
MaxTicks == 2      \* advances of the clock the rate limiter sees
MaxOther == 1      \* rate-limited requests beside those of the followed client

\* --------------------------------------------------------------- constants
Roles == {"user", "admin", "manager", "owner"}
Perms == {"read", "create", "update", "delete", "assign", "reports"}
UIDs == {"u1", "u2"}
Emails == {"a@x", "A@x", "b@x"}
NoEmail == ""
DemoUserId == -1   \* the string 'demo-user-id', outside the ObjectId space
BadId == -2        \* a subject string that does not cast to an ObjectId
SecureTokenIss == "https://securetoken.google.com/asset-manager"
OtherIss == "https://issuer.example"
Algorithms == <<"HS256", "HS512", "RS256">>

\* lowercase: true of the email path of the schema
Lower(e) == IF e = "A@x" THEN "a@x" ELSE e

VARIABLES users, nextId, audit, env, req, g, srv, fb, rl

vars == <<users, nextId, audit, env, req, g, srv, fb, rl>>

Slots == 1..NReq

\* ------------------------------------------------- the Firebase Admin app
\* the module state of config/firebase-admin.js (firebaseInitialized,
\* adminInstance), the app registry of the firebase-admin package
\* (admin.apps), the flag of the middleware's own initializeFirebase, and the
\* callers of initializeFirebaseAdmin; an app is named by the number of the
\* initializeApp call that made it, 0 is null
FbStart(config) ==
  [config |-> config, firebaseInitialized |-> FALSE, adminInstance |-> 0,
   apps |-> {}, inits |-> 0, deletes |-> 0, threw |-> FALSE,
   mwInitialized |-> FALSE,
   pc |-> [c \in Slots |-> "idle"], ret |-> [c \in Slots |-> 0]]

\* ------------------------------------------------------------ Principal
NoUser ==
  [id |-> 0, firebaseUID |-> "", email |-> "", name |-> "", role |-> "",
   permissions |-> {}, isActive |-> FALSE, lastLogin |-> 0]

mkUser(id, uid, email, role, perms, active) ==
  [id |-> id, firebaseUID |-> uid, email |-> email, name |-> "Unknown User",
   role |-> role, permissions |-> perms, isActive |-> active, lastLogin |-> 0]

\* schema validation run by save(): required paths and the role enum
Validates(u) ==
  /\ u.firebaseUID # ""
  /\ u.email # ""
  /\ u.role \in Roles
  /\ u.permissions \subseteq Perms

\* the mutant of the unique indexes: a schema without `unique: true`
UniqueOkNoIndex(store, u) == TRUE

\* the two unique indexes of the schema (firebaseUID, email)
UniqueOk(store, u) ==
  \A v \in store : v.id # u.id => (v.firebaseUID # u.firebaseUID /\ v.email # u.email)

\* new User(fields): the setters of the schema (lowercase email)
newUser(uid, email, role, perms, active) ==
  mkUser(0, uid, Lower(email), role, perms, active)

\* User.findOne({ firebaseUID })
findByFirebaseUID(store, uid) ==
  IF \E v \in store : v.firebaseUID = uid
  THEN CHOOSE v \in store : v.firebaseUID = uid
  ELSE NoUser

\* the mutant of the lookup: the filter dropped, any row answers
findByIdAnyRow(store, id) ==
  IF store # {} THEN CHOOSE v \in store : TRUE ELSE NoUser

\* User.findById(id): null for an absent id
findById(store, id) ==
  IF \E v \in store : v.id = id
  THEN CHOOSE v \in store : v.id = id
  ELSE NoUser

\* ---------------------------------------------------------------- tokens
Tok(raw, segs, hdrOk, payOk, alg, iss, fbClaims, sub, remote, uid, email, roleClaim, localSig) ==
  [raw |-> raw, segs |-> segs, hdrOk |-> hdrOk, payOk |-> payOk, alg |-> alg,
   iss |-> iss, aud |-> fbClaims, firebase |-> fbClaims, auth_time |-> fbClaims,
   exp |-> TRUE, iat |-> TRUE, id |-> sub, sub |-> 0, userId |-> 0,
   remote |-> remote, uid |-> uid, email |-> email, roleClaim |-> roleClaim,
   localSig |-> localSig]

Opaque(raw) ==
  [Tok(raw, 1, FALSE, FALSE, "", "", FALSE, 0, "auth/argument-error", "", "", "", FALSE)
     EXCEPT !.exp = FALSE, !.iat = FALSE]

FbTok(remote, uid, email, roleClaim, localSig) ==
  [Tok("jwt", 3, TRUE, TRUE, "RS256", SecureTokenIss, TRUE, 0, remote, uid, email,
       roleClaim, localSig) EXCEPT !.sub = BadId]

JwtTok(alg, sub, localSig) ==
  Tok("jwt", 3, TRUE, TRUE, alg, "", FALSE, sub, "auth/argument-error", "", "", "", localSig)

NoToken == Opaque("")

DemoTokens == {"demo-admin-token", "demo-user-token"}

\* how admin.auth().verifyIdToken(token, true) can fail: the error codes of
\* the provider, a message that has 'invalid signature', a network error
RemoteFailures ==
  {"auth/id-token-expired", "auth/id-token-revoked", "auth/argument-error",
   "invalid signature", "app/network-error"}

\* ------------------------------------------------------- token classifier
\* payload.iss.includes('securetoken.google.com')
IssIsSecureToken(iss) == iss = SecureTokenIss

isFirebaseToken(t) ==
  /\ t.segs = 3
  /\ t.hdrOk /\ t.payOk
  /\ t.alg = "RS256"
  /\ t.iss # "" /\ IssIsSecureToken(t.iss)
  /\ t.aud /\ t.firebase /\ t.auth_time /\ t.exp /\ t.iat

\* jsonwebtoken: verify(token, secret, { algorithms: [a] })
jwtVerify(t, a) ==
  /\ t.segs = 3 /\ t.hdrOk /\ t.payOk
  /\ t.alg = a
  /\ t.localSig

\* decoded.id || decoded.sub || decoded.userId
subjectOf(t) == IF t.id # 0 THEN t.id ELSE IF t.sub # 0 THEN t.sub ELSE t.userId

\* ------------------------------------------------------------- requests
\* req.body: an absent field is "", isActive is "true", "false" or absent;
\* accepted is what validateUser makes of the body
NoBody ==
  [firebaseUID |-> "", email |-> "", name |-> "", role |-> "", permissions |-> {},
   isActive |-> "", accepted |-> TRUE]

\* the body of POST /register and POST /
Body(uid, email, role) ==
  [NoBody EXCEPT !.firebaseUID = uid, !.email = email, !.role = role]

Idle ==
  [pc |-> "idle", route |-> "auth", hasHeader |-> FALSE, bearer |-> FALSE,
   tok |-> NoToken, body |-> NoBody, target |-> 0,
   user |-> NoUser, authType |-> "unknown", firebaseUid |-> "",
   status |-> 0, success |-> "", msg |-> "", nextCalled |-> 0, handled |-> FALSE,
   reqUser |-> NoUser, reqAuthType |-> "", reqToken |-> FALSE,
   fbCalls |-> 0, fbFailed |-> FALSE, jwtCalls |-> <<>>, classifyCalls |-> 0,
   storeCalls |-> 0, auditCalls |-> 0, unseen |-> FALSE,
   ip |-> "", ua |-> "", sent |-> 0, audited |-> FALSE]

\* res.status(code).json({ success, message })
Respond(r, code, message) ==
  [r EXCEPT !.pc = "done", !.status = code, !.msg = message,
            !.success = IF code < 400 THEN "true" ELSE "false",
            !.sent = @ + 1]

\* ----------------------------------------------------------------- guards
\* a guard's verdict: 0 when it calls next(), else the status it answers
\* the mutant of the role guards: the membership test inverted
roleGuardInverted(roles, u) ==
  IF u = NoUser THEN 401
  ELSE IF u.role \in roles THEN 403
  ELSE 0

\* authorize(...roles) and requireRole(...roles): roles.includes(req.user.role)
authorize(roles, u) ==
  IF u = NoUser THEN 401
  ELSE IF u.role \notin roles THEN 403
  ELSE 0

requireRole(roles, u) ==
  IF u = NoUser THEN 401
  ELSE IF u.role \notin roles THEN 403
  ELSE 0

\* the mutant of the permission guard: no admin bypass
requirePermissionNoBypass(permissions, u) ==
  IF u = NoUser THEN 401
  ELSE IF ~(permissions \subseteq u.permissions) THEN 403
  ELSE 0

\* the mutant of the guards' first test: a missing Principal answered 403
requirePermissionNoUser403(permissions, u) ==
  IF u = NoUser THEN 403
  ELSE IF u.role = "admin" THEN 0
  ELSE IF ~(permissions \subseteq u.permissions) THEN 403
  ELSE 0

\* requirePermission(...permissions): permissions.every(p => user has p)
requirePermission(permissions, u) ==
  IF u = NoUser THEN 401
  ELSE IF u.role = "admin" THEN 0
  ELSE IF ~(permissions \subseteq u.permissions) THEN 403
  ELSE 0

\* the rest parameter of the guard each route is declared with; an array
\* passed as one argument is one element, which no role string equals
ArrayOfAdmin == "['admin']"

RouteRoles(route) ==
  CASE route = "createUser" -> {ArrayOfAdmin}
    [] route = "softDelete" -> {ArrayOfAdmin}
    [] route = "restore" -> {ArrayOfAdmin}
    [] route = "deactivate" -> {"admin"}
    [] route = "activate" -> {"admin"}
    [] OTHER -> Roles

\* the routes declared with validateUser after their guard
Validated(route) == route \in {"createUser", "putV2"}

\* ----------------------------------------------------------- authenticate
\* the mutant of the demo branch: the development-mode test dropped
isDemoAnyMode(r) == r.tok.raw \in DemoTokens

\* Method 0: NODE_ENV === 'development' and a literal sentinel
isDemo(r) == env.dev /\ r.tok.raw \in DemoTokens

\* the mutant of the demo Principal: the two sentinels swapped
DemoUserSwapped(raw) ==
  [id |-> DemoUserId, firebaseUID |-> "demo-firebase-uid",
   email |-> "demo@example.com", name |-> "Demo User",
   role |-> IF raw = "demo-user-token" THEN "admin" ELSE "user",
   permissions |-> IF raw = "demo-user-token" THEN Perms ELSE {"read"},
   isActive |-> TRUE, lastLogin |-> 1]

\* the demo user object of Method 0
DemoUser(raw) ==
  [id |-> DemoUserId, firebaseUID |-> "demo-firebase-uid",
   email |-> "demo@example.com", name |-> "Demo User",
   role |-> IF raw = "demo-admin-token" THEN "admin" ELSE "user",
   permissions |-> IF raw = "demo-admin-token" THEN Perms ELSE {"read"},
   isActive |-> TRUE, lastLogin |-> 1]

\* next() of authenticate: the route's guard and the start of its handler
\* run in the same tick
AfterNext(r) ==
  LET n == [r EXCEPT !.nextCalled = @ + 1] IN
  IF r.route = "auth" THEN [n EXCEPT !.pc = "done", !.handled = TRUE]
  ELSE LET v == requireRole(RouteRoles(r.route), n.reqUser) IN
       IF v # 0 THEN Respond(n, v, "Access denied")
       ELSE IF Validated(r.route) /\ ~r.body.accepted
       THEN Respond(n, 400, "Validation failed")
       ELSE [n EXCEPT !.pc = "handler"]

\* the mutant of the algorithm loop: no break after a success
algorithmsTriedNoBreak(t) == Algorithms

\* the algorithms jwt.verify is called with: up to the first that verifies
algorithmsTried(t) ==
  IF \E k \in 1..Len(Algorithms) : jwtVerify(t, Algorithms[k])
  THEN SubSeq(Algorithms, 1,
              CHOOSE k \in 1..Len(Algorithms) :
                /\ jwtVerify(t, Algorithms[k])
                /\ \A j \in 1..(k - 1) : ~jwtVerify(t, Algorithms[j]))
  ELSE Algorithms

\* Method 2 up to its await: the secret check and the algorithm loop
JwtSection(r) ==
  IF ~env.jwtSecret THEN Respond(r, 401, "JWT authentication not configured")
  ELSE LET tried == algorithmsTried(r.tok)
           n == [r EXCEPT !.jwtCalls = @ \o tried] IN
       IF ~jwtVerify(r.tok, tried[Len(tried)]) THEN Respond(n, 401, "Invalid token")
       ELSE [n EXCEPT !.authType = "jwt", !.pc = "findById", !.storeCalls = @ + 1]

\* the mutant of the catch of Method 1: the 401 sent without a return
FirebaseCatchNoReturn(r, code) ==
  LET n == [r EXCEPT !.fbFailed = TRUE] IN
  IF code \in {"auth/argument-error", "invalid signature"}
  THEN JwtSection(Respond(n, 401, "Invalid Firebase token - signature verification failed"))
  ELSE JwtSection(n)

\* the catch of Method 1: signature errors answer 401, the rest falls through
FirebaseCatch(r, code) ==
  LET n == [r EXCEPT !.fbFailed = TRUE] IN
  IF code \in {"auth/argument-error", "invalid signature"}
  THEN Respond(n, 401, "Invalid Firebase token - signature verification failed")
  ELSE JwtSection(n)

\* the mutant of the active check: the check dropped
FinalValidationNoActiveCheck(r) ==
  IF r.user = NoUser THEN Respond(r, 401, "Authentication failed - no user found")
  ELSE [r EXCEPT !.reqToken = TRUE, !.reqUser = r.user, !.reqAuthType = r.authType,
                 !.pc = "audit", !.auditCalls = @ + 1]

\* the mutant of the attach: the request context set before the checks
FinalValidationAttachFirst(r) ==
  LET n == [r EXCEPT !.reqToken = TRUE, !.reqUser = r.user,
                     !.reqAuthType = r.authType] IN
  IF r.user = NoUser THEN Respond(n, 401, "Authentication failed - no user found")
  ELSE IF ~r.user.isActive THEN Respond(n, 403, "Account has been deactivated")
  ELSE [n EXCEPT !.pc = "audit", !.auditCalls = @ + 1]

\* 'Final validation', the active check and the attach of the request context
FinalValidation(r) ==
  IF r.user = NoUser THEN Respond(r, 401, "Authentication failed - no user found")
  ELSE IF ~r.user.isActive THEN Respond(r, 403, "Account has been deactivated")
  ELSE [r EXCEPT !.reqToken = TRUE, !.reqUser = r.user, !.reqAuthType = r.authType,
                 !.pc = "audit", !.auditCalls = @ + 1]

\* the mutant of the header check: a missing header passed on
headerMissingNever(r) == FALSE

\* !authHeader
headerMissing(r) == ~r.hasHeader

\* authenticate from its entry to its first await
AuthStart(r) ==
  IF headerMissing(r)
  THEN Respond(r, 401, "Authentication required - No Authorization header")
  ELSE IF isDemo(r)
  THEN AfterNext([r EXCEPT !.user = DemoUser(r.tok.raw), !.authType = "demo",
                           !.reqToken = TRUE, !.reqUser = DemoUser(r.tok.raw),
                           !.reqAuthType = "demo"])
  ELSE IF env.firebase /\ isFirebaseToken(r.tok)
  THEN [r EXCEPT !.classifyCalls = @ + 1, !.fbCalls = @ + 1, !.pc = "verifyIdToken"]
  ELSE JwtSection([r EXCEPT !.classifyCalls = IF env.firebase THEN @ + 1 ELSE @])

\* --------------------------------------------------------------- inputs
In(route, hasHeader, bearer, tok, body, target) ==
  [route |-> route, hasHeader |-> hasHeader, bearer |-> bearer, tok |-> tok,
   body |-> body, target |-> target, ip |-> "10.0.0.1", ua |-> "curl"]

\* bearer strings of every shape the middleware tells apart
MalformedTokens ==
  { Opaque("garbage"), Opaque("Demo-Admin-Token"),
    [Opaque("garbage") EXCEPT !.segs = 2],
    [JwtTok("HS256", 1, TRUE) EXCEPT !.hdrOk = FALSE],
    [JwtTok("HS256", 1, TRUE) EXCEPT !.payOk = FALSE] }

FirebaseTokens ==
  { FbTok("ok", uid, e, rc, FALSE) :
      uid \in UIDs, e \in {"a@x", "b@x"}, rc \in {"", "admin"} }
  \cup { FbTok("ok", "u1", e, "", FALSE) : e \in {"A@x", NoEmail} }
  \cup { FbTok("ok", "u2", "b@x", "root", FALSE) }
  \cup { FbTok(f, "u1", "a@x", "", ls) : f \in RemoteFailures, ls \in BOOLEAN }
  \cup { [FbTok("ok", "u1", "a@x", "", TRUE) EXCEPT !.alg = "HS256"],
         [FbTok("ok", "u1", "a@x", "", TRUE) EXCEPT !.iss = OtherIss] }

LocalTokens ==
  { JwtTok(a, s, TRUE) : a \in {"HS256", "HS512", "RS256"}, s \in 1..2 }
  \cup { JwtTok("HS256", s, TRUE) : s \in {0, MaxUsers, BadId} }
  \cup { JwtTok("none", 1, TRUE), JwtTok("HS256", 1, FALSE) }
  \cup { [JwtTok("HS256", 0, TRUE) EXCEPT !.sub = 1],
         [JwtTok("HS256", 0, TRUE) EXCEPT !.userId = 2] }

AllTokens ==
  { Opaque(d) : d \in DemoTokens } \cup MalformedTokens \cup FirebaseTokens
    \cup LocalTokens

AdminToken == JwtTok("HS256", 1, TRUE)

\* requests one at a time: every bearer string through authenticate, and the
\* admin-only routes that deactivate and reactivate a Principal
SeqInputs ==
  { In("auth", FALSE, FALSE, NoToken, NoBody, 0) }
  \cup { In("auth", TRUE, TRUE, t, NoBody, 0) : t \in AllTokens }
  \cup { In("auth", TRUE, FALSE, Opaque(d), NoBody, 0) : d \in DemoTokens }
  \cup { In(ro, TRUE, TRUE, AdminToken, NoBody, t) :
           ro \in {"deactivate", "activate"}, t \in 1..2 }

\* ------------------------------------------------- steps of authenticate
\* a request takes the lowest free slot: which slot holds it changes nothing
Start(i, inputs) ==
  /\ req[i].pc = "idle"
  /\ \A j \in 1..(i - 1) : req[j].pc # "idle"
  /\ \E in \in inputs :
       /\ in.route # "register"
       /\ LET r == [Idle EXCEPT !.route = in.route, !.hasHeader = in.hasHeader,
                                !.bearer = in.bearer, !.tok = in.tok,
                                !.body = in.body, !.target = in.target,
                                !.ip = in.ip, !.ua = in.ua,
                                !.unseen = \A v \in users :
                                            /\ v.firebaseUID # in.tok.uid
                                            /\ v.email # Lower(in.tok.email)]
          IN req' = [req EXCEPT ![i] = AuthStart(r)]
  /\ UNCHANGED <<users, nextId, audit, env, g, srv, fb, rl>>

\* await admin.auth().verifyIdToken(token, true) settles
VerifyIdTokenReturns(i) ==
  /\ req[i].pc = "verifyIdToken"
  /\ LET r == req[i] IN
       req' = [req EXCEPT ![i] =
         IF r.tok.remote = "ok"
         THEN [r EXCEPT !.authType = "firebase", !.firebaseUid = r.tok.uid,
                        !.pc = "findOne", !.storeCalls = @ + 1]
         ELSE FirebaseCatch(r, r.tok.remote)]
  /\ UNCHANGED <<users, nextId, audit, env, g, srv, fb, rl>>

\* role: decodedToken.role || 'user'
provisionedRole(t) == IF t.roleClaim # "" THEN t.roleClaim ELSE "user"

\* await User.findOne({ firebaseUID: decodedToken.uid }) settles
FindOneReturns(i) ==
  /\ req[i].pc = "findOne"
  /\ LET r == req[i]
         found == findByFirebaseUID(users, r.tok.uid) IN
       req' = [req EXCEPT ![i] =
         IF found = NoUser
         THEN [r EXCEPT !.user = newUser(r.tok.uid, r.tok.email,
                                         provisionedRole(r.tok), {"read"}, TRUE),
                        !.pc = "create", !.storeCalls = @ + 1]
         ELSE [r EXCEPT !.user = [found EXCEPT !.lastLogin = 1],
                        !.pc = "save", !.storeCalls = @ + 1]]
  /\ UNCHANGED <<users, nextId, audit, env, g, srv, fb, rl>>

\* await user.save() of createUserFromFirebaseToken settles: the insert, or
\* the ValidationError / E11000 it throws into the catch of Method 1
CreateReturns(i) ==
  /\ req[i].pc = "create"
  /\ nextId <= MaxUsers
  /\ LET r == req[i]
         doc == [r.user EXCEPT !.id = nextId] IN
       IF Validates(doc) /\ UniqueOk(users, doc)
       THEN /\ users' = users \cup {doc}
            /\ nextId' = nextId + 1
            /\ req' = [req EXCEPT ![i] =
                 [r EXCEPT !.user = [doc EXCEPT !.lastLogin = 1], !.pc = "save",
                           !.storeCalls = @ + 1]]
       ELSE /\ req' = [req EXCEPT ![i] = FirebaseCatch(r, "E11000")]
            /\ UNCHANGED <<users, nextId>>
  /\ UNCHANGED <<audit, env, g, srv, fb, rl>>

\* await user.save() of the last-login update settles
SaveReturns(i) ==
  /\ req[i].pc = "save"
  /\ LET r == req[i] IN
       /\ users' = { IF v.id = r.user.id THEN [v EXCEPT !.lastLogin = 1] ELSE v :
                     v \in users }
       /\ req' = [req EXCEPT ![i] = FinalValidation(r)]
  /\ UNCHANGED <<nextId, audit, env, g, srv, fb, rl>>

\* await User.findById(userId) settles
FindByIdReturns(i) ==
  /\ req[i].pc = "findById"
  /\ LET r == req[i]
         sid == subjectOf(r.tok)
         found == findById(users, sid) IN
       req' = [req EXCEPT ![i] =
         IF sid = BadId THEN Respond(r, 401, "Invalid token")
         ELSE IF found = NoUser THEN Respond(r, 401, "Invalid token - user not found")
         ELSE FinalValidation([r EXCEPT !.user = found])]
  /\ UNCHANGED <<users, nextId, audit, env, g, srv, fb, rl>>

\* the mutant of the audit document: the request's values as they are
auditRecordNoDefaults(r) ==
  [userId |-> IF r.firebaseUid # "" THEN r.firebaseUid ELSE ToString(r.user.id),
   action |-> "AUTH_SUCCESS", resourceId |-> ToString(r.user.id),
   authType |-> r.authType, ipAddress |-> r.ip, userAgent |-> r.ua]

\* userId: firebaseUid || user._id.toString(); ipAddress and userAgent
\* default to 'unknown'
auditRecord(r) ==
  [userId |-> IF r.firebaseUid # "" THEN r.firebaseUid ELSE ToString(r.user.id),
   action |-> "AUTH_SUCCESS", resourceId |-> ToString(r.user.id),
   authType |-> r.authType,
   ipAddress |-> IF r.ip # "" THEN r.ip ELSE "unknown",
   userAgent |-> IF r.ua # "" THEN r.ua ELSE "unknown"]

\* the mutant of the audit step: no try/catch of its own, so a failed write
\* lands in the outer catch of authenticate
AuditReturnsThrows(i, answers) ==
  /\ req[i].pc = "audit"
  /\ \E ok \in answers :
       /\ ok => (auditRecord(req[i]) \in audit \/ Cardinality(audit) < MaxAudit)
       /\ audit' = IF ok THEN audit \cup {auditRecord(req[i])} ELSE audit
       /\ req' = [req EXCEPT ![i] =
            IF ok THEN AfterNext([req[i] EXCEPT !.audited = TRUE])
            ELSE Respond(req[i], 401, "Authentication failed")]
  /\ UNCHANGED <<users, nextId, env, g, srv, fb, rl>>

\* await AuditLog.create(...) settles, as the audit store answers (written or
\* thrown); then next()
AuditReturns(i, answers) ==
  /\ req[i].pc = "audit"
  /\ \E ok \in answers :
       /\ ok => (auditRecord(req[i]) \in audit \/ Cardinality(audit) < MaxAudit)
       /\ audit' = IF ok THEN audit \cup {auditRecord(req[i])} ELSE audit
       /\ req' = [req EXCEPT ![i] = AfterNext([req[i] EXCEPT !.audited = ok])]
  /\ UNCHANGED <<users, nextId, env, g, srv, fb, rl>>

\* the response is out: the slot takes the next request
Reset(i) ==
  /\ req[i].pc = "done"
  /\ req' = [req EXCEPT ![i] = Idle]
  /\ UNCHANGED <<users, nextId, audit, env, g, srv, fb, rl>>

\* ------------------------------------------------------ route handlers
\* the mutant of the deactivation: the row removed
setActiveDeletes(store, id, active) ==
  IF active THEN { IF v.id = id THEN [v EXCEPT !.isActive = TRUE] ELSE v : v \in store }
  ELSE { v \in store : v.id # id }

\* User.findByIdAndUpdate(id, { isActive }): one atomic store operation
setActive(store, id, active) ==
  { IF v.id = id THEN [v EXCEPT !.isActive = active] ELSE v : v \in store }

\* the mutant of the update document: the privileged fields taken from any
\* caller
updateDataV1Unchecked(caller, target, body) ==
  [name |-> body.name, role |-> body.role, permissions |-> body.permissions,
   isActive |-> body.isActive]

\* the update document of PUT /:id as first written: name for everyone who
\* may write, role, permissions and isActive for an admin on another profile
\* (an absent field is "" or {}: the update leaves the path alone)
updateDataV1(caller, target, body) ==
  LET privileged == caller.role = "admin" /\ target # caller.id IN
  [name |-> body.name,
   role |-> IF privileged THEN body.role ELSE "",
   permissions |-> IF privileged THEN body.permissions ELSE {},
   isActive |-> IF privileged THEN body.isActive ELSE ""]

\* the update document of the later PUT /:id: role for any admin; status is
\* no path of the schema and is dropped by the update
updateDataV2(caller, target, body) ==
  [name |-> body.name,
   role |-> IF caller.role = "admin" THEN body.role ELSE "",
   permissions |-> {},
   isActive |-> ""]

\* runValidators: true
updateValidates(upd) ==
  /\ upd.role \in Roles \cup {""}
  /\ upd.permissions \subseteq Perms

\* User.findByIdAndUpdate(id, updateData): one atomic store operation
applyUpdate(store, id, upd) ==
  { IF v.id # id THEN v
    ELSE [v EXCEPT !.name = IF upd.name # "" THEN upd.name ELSE @,
                   !.role = IF upd.role # "" THEN upd.role ELSE @,
                   !.permissions = IF upd.permissions # {} THEN upd.permissions ELSE @,
                   !.isActive = IF upd.isActive = "" THEN @ ELSE upd.isActive = "true"] :
    v \in store }

\* PUT /:id from the check of the caller to the response
putUser(store, r) ==
  LET caller == r.reqUser
      upd == IF r.route = "putV1" THEN updateDataV1(caller, r.target, r.body)
             ELSE updateDataV2(caller, r.target, r.body)
      hit == \E v \in store : v.id = r.target IN
  IF caller.role # "admin" /\ caller.id # r.target
  THEN [store |-> store, code |-> 403, message |-> "Access denied"]
  ELSE IF ~updateValidates(upd)
  THEN [store |-> store, code |-> 500, message |-> "Server error updating user"]
  ELSE IF ~hit
  THEN [store |-> store, code |-> 404, message |-> "User not found"]
  ELSE [store |-> applyUpdate(store, r.target, upd), code |-> 200,
        message |-> "User updated successfully"]

\* the handler behind authenticate and the role guard, to its response:
\* DELETE /:id and POST /:id/activate update one row; the later DELETE /:id
\* and POST /:id/restore write status and deletedAt, which are no paths of
\* the schema; PUT /:id updates a profile; POST / looks the email up and
\* saves a document without firebaseUID, which the schema rejects
HandlerReturns(i) ==
  /\ req[i].pc = "handler"
  /\ LET r == [req[i] EXCEPT !.handled = TRUE, !.storeCalls = @ + 1]
         hit == \E v \in users : v.id = r.target IN
       CASE r.route \in {"deactivate", "activate"} ->
              /\ users' = setActive(users, r.target, r.route = "activate")
              /\ req' = [req EXCEPT ![i] =
                   Respond(r, IF hit THEN 200 ELSE 404,
                           IF hit THEN "User updated" ELSE "User not found")]
         [] r.route \in {"softDelete", "restore"} ->
              /\ users' = users
              /\ req' = [req EXCEPT ![i] =
                   IF r.route = "softDelete" /\ r.reqUser.id = r.target
                   THEN Respond(r, 400, "Cannot delete your own account")
                   ELSE Respond(r, IF hit THEN 200 ELSE 404,
                                IF hit THEN "User updated" ELSE "User not found")]
         [] r.route \in {"putV1", "putV2"} ->
              LET out == putUser(users, r) IN
              /\ users' = out.store
              /\ req' = [req EXCEPT ![i] = Respond(r, out.code, out.message)]
         [] OTHER ->
              /\ users' = users
              /\ req' = [req EXCEPT ![i] =
                   IF \E v \in users : v.email = Lower(r.body.email)
                   THEN Respond(r, 400, "User with this email already exists")
                   ELSE Respond(r, 500, "Server error while creating user")]
  /\ UNCHANGED <<nextId, audit, env, g, srv, fb, rl>>

\* POST /register from its entry to await verifyFirebaseToken(token)
RegisterStart(i, inputs) ==
  /\ req[i].pc = "idle"
  /\ \A j \in 1..(i - 1) : req[j].pc # "idle"
  /\ \E in \in inputs :
       /\ in.route = "register"
       /\ LET r == [Idle EXCEPT !.route = in.route, !.hasHeader = in.hasHeader,
                                !.bearer = in.bearer, !.tok = in.tok,
                                !.body = in.body,
                                !.unseen = findByFirebaseUID(users, in.tok.uid) = NoUser]
          IN req' = [req EXCEPT ![i] =
               IF ~r.hasHeader \/ ~r.bearer
               THEN Respond(r, 401, "Missing or invalid authorization token")
               ELSE IF ~env.firebase
               THEN Respond(r, 400, "Firebase configuration missing")
               ELSE [r EXCEPT !.fbCalls = @ + 1, !.pc = "regVerify"]]
  /\ UNCHANGED <<users, nextId, audit, env, g, srv, fb, rl>>

\* await verifyFirebaseToken(token) settles; then the uid check and the
\* issue of User.findOne({ $or: [{ firebaseUID }, { email }] })
RegVerifyReturns(i) ==
  /\ req[i].pc = "regVerify"
  /\ LET r == req[i] IN
       req' = [req EXCEPT ![i] =
         IF r.tok.remote \in {"auth/id-token-expired", "auth/id-token-revoked"}
         THEN Respond([r EXCEPT !.fbFailed = TRUE], 401, "Authentication token rejected")
         ELSE IF r.tok.remote # "ok"
         THEN Respond([r EXCEPT !.fbFailed = TRUE], 400, "Invalid authentication token")
         ELSE IF r.tok.uid # r.body.firebaseUID
         THEN Respond(r, 403, "Token does not match user")
         ELSE [r EXCEPT !.pc = "regFindOne", !.storeCalls = @ + 1]]
  /\ UNCHANGED <<users, nextId, audit, env, g, srv, fb, rl>>

\* role: 'user' followed by ...otherData, which a role in the body overrides
registeredRole(body) == IF body.role # "" THEN body.role ELSE "user"

\* the existence check settles; then new User({...}) and the issue of save()
RegFindOneReturns(i) ==
  /\ req[i].pc = "regFindOne"
  /\ LET r == req[i] IN
       req' = [req EXCEPT ![i] =
         IF \E v \in users : \/ v.firebaseUID = r.body.firebaseUID
                             \/ v.email = Lower(r.body.email)
         THEN Respond(r, 409, "User already exists with this email or Firebase UID")
         ELSE [r EXCEPT !.user = newUser(r.body.firebaseUID, r.body.email,
                                         registeredRole(r.body), {}, TRUE),
                        !.pc = "regSave", !.storeCalls = @ + 1]]
  /\ UNCHANGED <<users, nextId, audit, env, g, srv, fb, rl>>

\* await user.save() settles: 201 after the insert, 400 when it throws
RegSaveReturns(i) ==
  /\ req[i].pc = "regSave"
  /\ nextId <= MaxUsers
  /\ LET r == req[i]
         doc == [r.user EXCEPT !.id = nextId] IN
       IF Validates(doc) /\ UniqueOk(users, doc)
       THEN /\ users' = users \cup {doc}
            /\ nextId' = nextId + 1
            /\ req' = [req EXCEPT ![i] =
                 Respond([r EXCEPT !.user = doc, !.storeCalls = @ + 1], 201,
                         "User registered successfully")]
       ELSE /\ req' = [req EXCEPT ![i] = Respond(r, 400, "Registration failed")]
            /\ UNCHANGED <<users, nextId>>
  /\ UNCHANGED <<audit, env, g, srv, fb, rl>>

\* ------------------------------------------------ the guards on their own
GIdle ==
  [kind |-> "", roles |-> {}, permissions |-> {}, user |-> NoUser, ran |-> FALSE,
   out |-> 0]

\* what req.user can be when a guard runs
GuardUsers ==
  {NoUser} \cup { mkUser(1, "u1", "a@x", ro, ps, ac) :
                    ro \in Roles, ps \in SUBSET Perms, ac \in BOOLEAN }

\* a guard built with its arguments, about to run on a request
GuardCalls ==
  { [kind |-> k, roles |-> rs, permissions |-> {}, user |-> u, ran |-> FALSE,
     out |-> 0] :
      k \in {"authorize", "requireRole"}, rs \in SUBSET Roles, u \in GuardUsers }
  \cup
  { [kind |-> "requirePermission", roles |-> {}, permissions |-> ps, user |-> u,
     ran |-> FALSE, out |-> 0] : ps \in SUBSET Perms, u \in GuardUsers }

ApplyAuthorize ==
  /\ g.kind = "authorize" /\ ~g.ran
  /\ g' = [g EXCEPT !.ran = TRUE, !.out = authorize(g.roles, g.user)]
  /\ UNCHANGED <<users, nextId, audit, env, req, srv, fb, rl>>

ApplyRequireRole ==
  /\ g.kind = "requireRole" /\ ~g.ran
  /\ g' = [g EXCEPT !.ran = TRUE, !.out = requireRole(g.roles, g.user)]
  /\ UNCHANGED <<users, nextId, audit, env, req, srv, fb, rl>>

ApplyRequirePermission ==
  /\ g.kind = "requirePermission" /\ ~g.ran
  /\ g' = [g EXCEPT !.ran = TRUE, !.out = requirePermission(g.permissions, g.user)]
  /\ UNCHANGED <<users, nextId, audit, env, req, srv, fb, rl>>

\* ------------------------------------------------------- process start
\* the server process: what it was started with (the required variables,
\* the Firebase service account file and variables, how MongoDB and the
\* Firebase connection test answer) and how far its start has come
Boot(mongoUri, jwtSecret, mongo, file, fbEnv, listUsers) ==
  [pc |-> "load", mongoUri |-> mongoUri, jwtSecret |-> jwtSecret, mongo |-> mongo,
   file |-> file, fbEnv |-> fbEnv, listUsers |-> listUsers,
   connected |-> FALSE, firebaseInitialized |-> FALSE, listening |-> FALSE,
   exitCode |-> 0]

BootConfigs ==
  { Boot(mu, js, mo, fi, fe, lu) :
      mu \in BOOLEAN, js \in BOOLEAN, mo \in {"ok", "refused"},
      fi \in {"absent", "ok", "wrongProject", "noPrivateKey"},
      fe \in {"unset", "ok", "wrongProject"},
      lu \in {"ok", "error", "timeout"} }

\* a process that came up with everything configured and answers requests
Serving ==
  [Boot(TRUE, TRUE, "ok", "ok", "unset", "ok") EXCEPT
     !.pc = "listening", !.connected = TRUE, !.firebaseInitialized = TRUE,
     !.listening = TRUE]

\* process.exit(1)
Exit(s) == [s EXCEPT !.pc = "exited", !.exitCode = 1, !.listening = FALSE]

\* initializeFirebaseAdmin up to its await: the service account from the
\* file, else from the variables, else 'Firebase configuration missing'
serviceAccountLoads(s) ==
  IF s.file # "absent" THEN s.file = "ok"
  ELSE IF s.fbEnv # "unset" THEN s.fbEnv = "ok"
  ELSE FALSE

\* the check of requiredEnvVars, then mongoose.connect is issued and the
\* route modules are imported
CheckEnvVars ==
  /\ srv.pc = "load"
  /\ srv' = IF ~srv.mongoUri \/ ~srv.jwtSecret THEN Exit(srv)
            ELSE [srv EXCEPT !.pc = "imports"]
  /\ UNCHANGED <<users, nextId, audit, env, req, g, fb, rl>>

\* mongoose.connect settles: connected, or its catch exits
MongoConnectSettles ==
  /\ srv.pc \in {"imports", "listUsers", "listening"}
  /\ ~srv.connected
  /\ srv' = IF srv.mongo = "ok" THEN [srv EXCEPT !.connected = TRUE] ELSE Exit(srv)
  /\ UNCHANGED <<users, nextId, audit, env, req, g, fb, rl>>

\* startServer to the await of the connection test; a throw of
\* initializeFirebaseAdmin lands in the catch of startServer
StartServer ==
  /\ srv.pc = "imports"
  /\ srv' = IF serviceAccountLoads(srv) THEN [srv EXCEPT !.pc = "listUsers"]
            ELSE Exit(srv)
  /\ UNCHANGED <<users, nextId, audit, env, req, g, fb, rl>>

\* Promise.race of listUsers(1) and the 10 s timer settles; then app.listen
ListUsersReturns ==
  /\ srv.pc = "listUsers"
  /\ srv' = IF srv.listUsers = "ok"
            THEN [srv EXCEPT !.pc = "listening", !.firebaseInitialized = TRUE,
                             !.listening = TRUE]
            ELSE Exit(srv)
  /\ UNCHANGED <<users, nextId, audit, env, req, g, fb, rl>>

\* ------------------------------------------------------ specifications
Envs == [dev : BOOLEAN, jwtSecret : BOOLEAN, firebase : BOOLEAN]

\* Principal stores earlier requests can have left behind
SeedStores ==
  { {},
    { mkUser(1, "u1", "a@x", "admin", Perms, TRUE) },
    { mkUser(1, "u1", "a@x", "admin", Perms, FALSE),
      mkUser(2, "u2", "b@x", "user", {"read"}, TRUE) },
    { mkUser(1, "u1", "a@x", "manager", {"read", "reports"}, FALSE),
      mkUser(2, "u2", "b@x", "owner", {}, TRUE) } }

\* ------------------------------------------------------ the rate limiter
\* rateLimitConfigs[endpointType] || rateLimitConfigs.default, in ms
AssetsPoints == 200
ReportsPoints == 50
DefaultPoints == 100

rateLimitConfigs(endpointType) ==
  CASE endpointType = "assets" ->
         [points |-> AssetsPoints, duration |-> 15 * 60 * 1000]
    [] endpointType = "reports" ->
         [points |-> ReportsPoints, duration |-> 60 * 60 * 1000]
    [] OTHER -> [points |-> DefaultPoints, duration |-> 15 * 60 * 1000]

EndpointTypes == {"assets", "reports", "default"}

\* req.ip || 'unknown'
ClientKeys == {"10.0.0.1", "unknown"}

\* `${endpointType}:${key}`
StoreKeys == EndpointTypes \X ClientKeys

\* no entry of the Map
NoEntry == [present |-> FALSE, count |-> 0, resetTime |-> 0]

NoResult ==
  [n |-> 0, key |-> <<"", "">>, allowed |-> TRUE, remaining |-> 0,
   retryAfter |-> 0, limit |-> 0, status |-> 0, nextCalled |-> FALSE]

\* Math.ceil(ms / 1000) of a count of ms that is not negative
CeilSeconds(ms) == (ms + 999) \div 1000

\* the mutant of checkLimit: the limit test with > for >=
checkLimitOffByOne(store, endpointType, key, now) ==
  LET config == rateLimitConfigs(endpointType)
      storeKey == <<endpointType, key>>
      data == store[storeKey] IN
  IF ~data.present \/ now - data.resetTime > config.duration
  THEN [store |-> [store EXCEPT ![storeKey] =
                     [present |-> TRUE, count |-> 1, resetTime |-> now]],
        allowed |-> TRUE, remaining |-> config.points - 1, retryAfter |-> 0]
  ELSE IF data.count > config.points
  THEN [store |-> store, allowed |-> FALSE, remaining |-> 0,
        retryAfter |-> CeilSeconds(data.resetTime + config.duration - now)]
  ELSE [store |-> [store EXCEPT ![storeKey].count = @ + 1],
        allowed |-> TRUE, remaining |-> config.points - (data.count + 1),
        retryAfter |-> 0]

\* limiter.checkLimit(key) at time now: the new Map and the result
checkLimit(store, endpointType, key, now) ==
  LET config == rateLimitConfigs(endpointType)
      storeKey == <<endpointType, key>>
      data == store[storeKey] IN
  IF ~data.present \/ now - data.resetTime > config.duration
  THEN [store |-> [store EXCEPT ![storeKey] =
                     [present |-> TRUE, count |-> 1, resetTime |-> now]],
        allowed |-> TRUE, remaining |-> config.points - 1, retryAfter |-> 0]
  ELSE IF data.count >= config.points
  THEN [store |-> store, allowed |-> FALSE, remaining |-> 0,
        retryAfter |-> CeilSeconds(data.resetTime + config.duration - now)]
  ELSE [store |-> [store EXCEPT ![storeKey].count = @ + 1],
        allowed |-> TRUE, remaining |-> config.points - (data.count + 1),
        retryAfter |-> 0]

\* the limiter's process at its start: an empty Map; the store key whose
\* requests are followed without a bound, and a second one beside it
RlStartWith(k, r) ==
  [now |-> 0, ticks |-> 0, other |-> 0, followed |-> k, rival |-> r,
   rateLimitStore |-> [sk \in StoreKeys |-> NoEntry], last |-> NoResult]

RlStart ==
  { RlStartWith(p[1], p[2]) :
      p \in { q \in (EndpointTypes \X {"10.0.0.1"}) \X StoreKeys : q[1] # q[2] } }

\* the limiter left alone
RlQuiet == RlStartWith(<<"default", "10.0.0.1">>, <<"default", "unknown">>)

\* the middleware of endpointLimiter(endpointType) for one request: the key,
\* checkLimit, the X-RateLimit headers, and 429 with Retry-After or next()
EndpointLimiter(endpointType, ip) ==
  LET key == IF ip # "" THEN ip ELSE "unknown"
      result == checkLimit(rl.rateLimitStore, endpointType, key, rl.now) IN
  /\ <<endpointType, key>> \in {rl.followed, rl.rival}
  /\ <<endpointType, key>> = rl.rival => rl.other < MaxOther
  /\ rl' = [rl EXCEPT
       !.rateLimitStore = result.store,
       !.other = IF <<endpointType, key>> = rl.rival THEN @ + 1 ELSE @,
       !.last = [n |-> 1 - rl.last.n, key |-> <<endpointType, key>>,
                 allowed |-> result.allowed, remaining |-> result.remaining,
                 retryAfter |-> result.retryAfter,
                 limit |-> rateLimitConfigs(endpointType).points,
                 status |-> IF result.allowed THEN 0 ELSE 429,
                 nextCalled |-> result.allowed]]
  /\ UNCHANGED <<users, nextId, audit, env, req, g, srv, fb>>

\* the setInterval callback: entries older than their duration are deleted
Cleanup ==
  /\ \E sk \in StoreKeys :
       /\ rl.rateLimitStore[sk].present
       /\ rl.now - rl.rateLimitStore[sk].resetTime > rateLimitConfigs(sk[1]).duration
  /\ rl' = [rl EXCEPT !.rateLimitStore =
       [sk \in StoreKeys |->
          IF /\ rl.rateLimitStore[sk].present
             /\ rl.now - rl.rateLimitStore[sk].resetTime
                  > rateLimitConfigs(sk[1]).duration
          THEN NoEntry ELSE rl.rateLimitStore[sk]]]
  /\ UNCHANGED <<users, nextId, audit, env, req, g, srv, fb>>

\* Date.now() moves on: by a millisecond, or by the followed window's length
Tick ==
  /\ rl.ticks < MaxTicks
  /\ \E d \in {1, rateLimitConfigs(rl.followed[1]).duration} :
       rl' = [rl EXCEPT !.now = @ + d, !.ticks = @ + 1]
  /\ UNCHANGED <<users, nextId, audit, env, req, g, srv, fb>>

InitWith(envs, stores, calls, boots, fbs, rls) ==
  /\ env \in envs
  /\ users \in stores
  /\ nextId = Cardinality(users) + 1
  /\ audit = {}
  /\ req = [i \in Slots |-> Idle]
  /\ g \in calls
  /\ srv \in boots
  /\ fb \in fbs
  /\ rl \in rls

\* one request at a time, every bearer string, every deployment
Init == InitWith(Envs, SeedStores, {GIdle}, {Serving}, {FbStart(TRUE)}, {RlQuiet})

Next ==
  \/ Start(1, SeqInputs)
  \/ VerifyIdTokenReturns(1)
  \/ FindOneReturns(1)
  \/ CreateReturns(1)
  \/ SaveReturns(1)
  \/ FindByIdReturns(1)
  \/ AuditReturns(1, BOOLEAN)
  \/ HandlerReturns(1)
  \/ Reset(1)

Spec == Init /\ [][Next]_vars

\* the guards as functions of their arguments and req.user
ProdEnv == [dev |-> FALSE, jwtSecret |-> TRUE, firebase |-> TRUE]

InitGuard == InitWith({ProdEnv}, {{}}, GuardCalls, {Serving}, {FbStart(TRUE)}, {RlQuiet})

NextGuard == ApplyAuthorize \/ ApplyRequireRole \/ ApplyRequirePermission

SpecGuard == InitGuard /\ [][NextGuard]_vars

\* concurrent requests against one store: provisioning, registration and
\* POST /api/users.  The audit store is down throughout: its answer never
\* reaches the Principal store or the response, and its records would only
\* multiply the states

RaceInputs ==
  { In("auth", TRUE, TRUE, FbTok("ok", "u1", "a@x", "", FALSE), NoBody, 0),
    In("auth", TRUE, TRUE, FbTok("ok", "u2", "a@x", "", FALSE), NoBody, 0),
    In("auth", TRUE, TRUE, FbTok("ok", "u2", "b@x", "", FALSE), NoBody, 0),
    In("register", TRUE, TRUE, FbTok("ok", "u2", "b@x", "", FALSE),
       Body("u2", "A@x", ""), 0),
    In("register", TRUE, TRUE, FbTok("ok", "u2", "b@x", "", FALSE),
       Body("u2", "b@x", "admin"), 0),
    In("register", TRUE, TRUE, FbTok("ok", "u2", "b@x", "", FALSE),
       Body("u1", "b@x", ""), 0),
    In("createUser", TRUE, TRUE, AdminToken,
       Body("", "b@x", "user"), 0) }

RaceStores == { {} }

InitRace == InitWith({ProdEnv}, RaceStores, {GIdle}, {Serving}, {FbStart(TRUE)}, {RlQuiet})

NextRace ==
  \E i \in Slots :
    \/ Start(i, RaceInputs)
    \/ VerifyIdTokenReturns(i)
    \/ FindOneReturns(i)
    \/ CreateReturns(i)
    \/ SaveReturns(i)
    \/ FindByIdReturns(i)
    \/ AuditReturns(i, {FALSE})
    \/ RegisterStart(i, RaceInputs)
    \/ RegVerifyReturns(i)
    \/ RegFindOneReturns(i)
    \/ RegSaveReturns(i)
    \/ Reset(i)

SpecRace == InitRace /\ [][NextRace]_vars

\* the user routes behind authenticate, one request at a time: the callers
\* are an admin and a second Principal, by local JWT and by Firebase token
UserToken == JwtTok("HS256", 2, TRUE)

FirebaseUserToken == FbTok("ok", "u2", "b@x", "", FALSE)

PutBodies ==
  { [NoBody EXCEPT !.name = "New Name"],
    [NoBody EXCEPT !.name = "New Name", !.role = "admin", !.permissions = Perms,
                   !.isActive = "false"],
    [NoBody EXCEPT !.isActive = "true"],
    [NoBody EXCEPT !.role = "admin", !.accepted = FALSE] }

RouteInputs ==
  { In("auth", TRUE, TRUE, t, NoBody, 0) : t \in {AdminToken, FirebaseUserToken} }
  \cup { [In("auth", TRUE, TRUE, FirebaseUserToken, NoBody, 0)
            EXCEPT !.ip = a[1], !.ua = a[2]] :
           a \in { <<"", "">> } }
  \cup { [In("auth", TRUE, TRUE, UserToken, NoBody, 0) EXCEPT !.ip = "", !.ua = ""] }
  \cup { In(ro, TRUE, TRUE, t, NoBody, id) :
           ro \in {"deactivate", "activate", "softDelete", "restore"},
           t \in {AdminToken, UserToken}, id \in 1..2 }
  \cup { In("createUser", TRUE, TRUE, t, Body("", "c@x", "user"), 0) :
           t \in {AdminToken, UserToken} }
  \cup { In(ro, TRUE, TRUE, t, b, id) :
           ro \in {"putV1", "putV2"}, t \in {AdminToken, UserToken},
           b \in PutBodies, id \in 1..2 }

RouteStores ==
  { { mkUser(1, "u1", "a@x", "admin", Perms, TRUE),
      mkUser(2, "u2", "b@x", ro, {"read"}, TRUE) } : ro \in {"user", "manager"} }

InitRoutes == InitWith({ProdEnv}, RouteStores, {GIdle}, {Serving}, {FbStart(TRUE)}, {RlQuiet})

NextRoutes ==
  \/ Start(1, RouteInputs)
  \/ VerifyIdTokenReturns(1)
  \/ FindOneReturns(1)
  \/ SaveReturns(1)
  \/ FindByIdReturns(1)
  \/ AuditReturns(1, BOOLEAN)
  \/ HandlerReturns(1)
  \/ Reset(1)

SpecRoutes == InitRoutes /\ [][NextRoutes]_vars

\* initializeFirebaseAdmin() from its entry to its first await: the early
\* return on (firebaseInitialized && adminInstance), else app.delete() on
\* every registered app, the service account, admin.initializeApp and the
\* start of listUsers(1)
InitializeFirebaseAdminCall(c) ==
  /\ fb.pc[c] = "idle"
  /\ IF fb.firebaseInitialized /\ fb.adminInstance # 0
     THEN fb' = [fb EXCEPT !.pc[c] = "returned", !.ret[c] = fb.adminInstance]
     ELSE /\ fb.inits < MaxInits
          /\ LET cleared == [fb EXCEPT !.deletes = @ + Cardinality(fb.apps),
                                       !.apps = {}] IN
             fb' = IF ~fb.config
                   THEN [cleared EXCEPT !.adminInstance = 0,
                                        !.firebaseInitialized = FALSE,
                                        !.threw = TRUE, !.pc[c] = "threw"]
                   ELSE [cleared EXCEPT !.inits = @ + 1,
                                        !.adminInstance = fb.inits + 1,
                                        !.apps = {fb.inits + 1},
                                        !.pc[c] = "await"]
  /\ UNCHANGED <<users, nextId, audit, env, req, g, srv, rl>>

\* Promise.race([listUsers(1).then(...), testTimeout]) settles: the flag is
\* set and the module's adminInstance returned, or the catch clears both
ListUsersSettles(c) ==
  /\ fb.pc[c] = "await"
  /\ \E ok \in BOOLEAN :
       fb' = IF ok
             THEN [fb EXCEPT !.firebaseInitialized = TRUE,
                             !.pc[c] = "returned", !.ret[c] = fb.adminInstance]
             ELSE [fb EXCEPT !.adminInstance = 0, !.firebaseInitialized = FALSE,
                             !.threw = TRUE, !.pc[c] = "threw"]
  /\ UNCHANGED <<users, nextId, audit, env, req, g, srv, rl>>

\* the caller has its handle or its error and may call again later
CallerContinues(c) ==
  /\ fb.pc[c] \in {"returned", "threw"}
  /\ fb' = [fb EXCEPT !.pc[c] = "idle", !.ret[c] = 0]
  /\ UNCHANGED <<users, nextId, audit, env, req, g, srv, rl>>

\* initializeFirebase() of the middleware, synchronous: it calls
\* admin.initializeApp only while no app is registered
InitializeFirebase ==
  /\ ~fb.mwInitialized /\ fb.config
  /\ fb.apps = {}
  /\ fb.inits < MaxInits
  /\ fb' = [fb EXCEPT !.inits = @ + 1, !.apps = {fb.inits + 1},
                      !.mwInitialized = TRUE]
  /\ UNCHANGED <<users, nextId, audit, env, req, g, srv, rl>>

\* the callers of initializeFirebaseAdmin and the middleware's
\* initializeFirebase in one process, with and without a configuration
InitFirebase ==
  InitWith({ProdEnv}, { {} }, {GIdle}, {Serving}, {FbStart(c) : c \in BOOLEAN}, {RlQuiet})

NextFirebase ==
  \/ \E c \in Slots : InitializeFirebaseAdminCall(c)
  \/ \E c \in Slots : ListUsersSettles(c)
  \/ \E c \in Slots : CallerContinues(c)
  \/ InitializeFirebase

SpecFirebase == InitFirebase /\ [][NextFirebase]_vars

\* the rate limiter of one process under requests of two clients
InitRate == InitWith({ProdEnv}, { {} }, {GIdle}, {Serving}, {FbStart(TRUE)}, RlStart)

NextRate ==
  \/ \E t \in EndpointTypes, ip \in {"10.0.0.1", ""} : EndpointLimiter(t, ip)
  \/ Cleanup
  \/ Tick

SpecRate == InitRate /\ [][NextRate]_vars

\* the start of the server process, over every configuration
InitBoot == InitWith({ProdEnv}, {{}}, {GIdle}, BootConfigs, {FbStart(TRUE)}, {RlQuiet})

NextBoot == CheckEnvVars \/ MongoConnectSettles \/ StartServer \/ ListUsersReturns

SpecBoot == InitBoot /\ [][NextBoot]_vars

\* ================================================================ claims
Done(i) == req[i].pc = "done"

\* a request through authenticate whose remote verification or provisioning threw
RemoteFailed(i) == req[i].route # "register" /\ req[i].fbFailed

\* C1: once a token is classified RemoteIdentity and the remote verification
\* (or the provisioning after it) fails for any reason, the request is
\* rejected and jwt.verify is never invoked for it.
C1_NoFallbackToLocalJWT ==
  \A i \in Slots :
    RemoteFailed(i) =>
      /\ req[i].jwtCalls = <<>>
      /\ req[i].nextCalled = 0
      /\ Done(i) /\ req[i].status >= 400

\* a valid remote token of a never-seen externalId, through authenticate
FirstTime(i) ==
  /\ req[i].route = "auth"
  /\ req[i].tok.remote = "ok"
  /\ req[i].unseen

\* C2: two concurrent authenticate requests with valid remote tokens for the
\* same never-seen externalId both succeed, resolve to the same Principal id,
\* and leave exactly one Principal row for it.
C2_ConcurrentFirstLoginsBothSucceed ==
  \A i, j \in Slots :
    ( /\ i # j
      /\ Done(i) /\ Done(j)
      /\ FirstTime(i) /\ FirstTime(j)
      /\ req[i].tok = req[j].tok )
    => /\ req[i].nextCalled = 1 /\ req[j].nextCalled = 1
       /\ req[i].reqUser.id = req[j].reqUser.id
       /\ Cardinality({ v \in users : v.firebaseUID = req[i].tok.uid }) = 1

\* C3: at most one Principal per firebaseUID and at most one per email, in
\* every state any interleaving of authenticate, POST /register and
\* POST /api/users reaches.
C3_UniquePrincipals ==
  \A u, v \in users :
    u # v => /\ u.id # v.id
             /\ u.firebaseUID # v.firebaseUID
             /\ u.email # v.email

\* an insert lost against a row a concurrent request wrote first
C3_Witness ==
  \E i, j \in Slots :
    /\ i # j
    /\ Done(i) /\ FirstTime(i) /\ req[i].nextCalled = 1
    /\ Done(j) /\ FirstTime(j) /\ req[j].fbFailed
    /\ req[i].tok.uid = req[j].tok.uid

\* the Principal a request resolved to is a stored one that is inactive
ResolvedInactive(i) ==
  /\ req[i].route = "auth"
  /\ req[i].user.id > 0
  /\ req[i].authType \in {"firebase", "jwt"}
  /\ ~req[i].user.isActive

\* C4: a request whose token verifies and resolves to a Principal with
\* isActive=false is answered 403 and never reaches next(), whatever the
\* role and permissions and whichever scheme verified the token.
C4_InactiveIs403 ==
  \A i \in Slots :
    ResolvedInactive(i) =>
      /\ req[i].nextCalled = 0
      /\ req[i].reqUser = NoUser
      /\ req[i].pc \in {"save", "done"}
      /\ Done(i) => req[i].status = 403 /\ req[i].msg = "Account has been deactivated"

C4_Witness ==
  \E i \in Slots :
    /\ Done(i) /\ ResolvedInactive(i)
    /\ req[i].user.role = "admin" /\ req[i].user.permissions = Perms
    /\ req[i].authType = "firebase"
    /\ req[i].status = 403

\* C5: a role guard calls next() iff the Principal's role is in the allowed
\* set and otherwise answers 403.
C5_RoleGuard ==
  ( /\ g.kind \in {"authorize", "requireRole"}
    /\ g.ran
    /\ g.user # NoUser )
  => /\ (g.out = 0) <=> (g.user.role \in g.roles)
     /\ g.out \in {0, 403}

C5_Witness ==
  /\ g.ran /\ g.kind = "requireRole" /\ g.roles = {"admin"}
  /\ g.user.role = "manager" /\ g.out = 403

\* C6: the permission guard passes unconditionally for role admin, and for
\* every other role passes iff every required capability is held; otherwise 403.
C6_PermissionGuard ==
  ( /\ g.kind = "requirePermission"
    /\ g.ran
    /\ g.user # NoUser )
  => /\ g.user.role = "admin" => g.out = 0
     /\ g.user.role # "admin" =>
          ((g.out = 0) <=> (\A p \in g.permissions : p \in g.user.permissions))
     /\ g.out \in {0, 403}

C6_Witness ==
  /\ g.ran /\ g.kind = "requirePermission" /\ g.permissions = {"reports"}
  /\ g.user.role = "admin" /\ g.user.permissions = {} /\ g.out = 0

\* C7: a guard that runs without a resolved Principal answers 401, never 403,
\* and does not call next(); 403 is answered only with a Principal present.
C7_NoPrincipalIs401 ==
  g.ran =>
    /\ g.user = NoUser => g.out = 401
    /\ g.out = 403 => g.user # NoUser
    /\ g.out = 401 => g.user = NoUser

C7_Witness ==
  /\ g.ran /\ g.kind = "requirePermission" /\ g.user = NoUser /\ g.out = 401

\* a request that carries `Authorization: Bearer <sentinel>`
DemoRequest(i, raw) ==
  /\ req[i].pc # "idle" /\ req[i].route = "auth"
  /\ req[i].hasHeader /\ req[i].tok.raw = raw

\* C8: in development mode `Bearer demo-admin-token` is accepted as an admin
\* with the full permission set and scheme demo, with no store call at all.
C8_DemoAdmin ==
  \A i \in Slots :
    (env.dev /\ DemoRequest(i, "demo-admin-token")) =>
      /\ Done(i) /\ req[i].nextCalled = 1 /\ req[i].status = 0
      /\ req[i].reqUser.role = "admin"
      /\ req[i].reqUser.permissions = {"read", "create", "update", "delete", "assign", "reports"}
      /\ req[i].reqAuthType = "demo"
      /\ req[i].reqToken
      /\ req[i].storeCalls = 0 /\ req[i].auditCalls = 0

C8_Witness ==
  \E i \in Slots :
    /\ env.dev /\ DemoRequest(i, "demo-admin-token") /\ req[i].bearer
    /\ Done(i) /\ req[i].nextCalled = 1
    /\ users # {}

\* C9: the demo short-circuit is taken only in development mode and only for
\* a literal sentinel; outside development mode a sentinel is answered 401;
\* in development mode it is recognized before any classification or verifier.
C9_DemoOnlyInDevelopment ==
  \A i \in Slots :
    /\ (req[i].reqAuthType = "demo" \/ req[i].authType = "demo") =>
          env.dev /\ req[i].tok.raw \in {"demo-admin-token", "demo-user-token"}
    /\ (\E d \in DemoTokens : DemoRequest(i, d)) =>
          IF env.dev
          THEN /\ req[i].reqAuthType = "demo"
               /\ req[i].classifyCalls = 0 /\ req[i].fbCalls = 0
               /\ req[i].jwtCalls = <<>>
          ELSE /\ Done(i) /\ req[i].status = 401
               /\ req[i].nextCalled = 0 /\ req[i].reqUser = NoUser

C9_Witness ==
  \E i \in Slots :
    /\ ~env.dev /\ env.jwtSecret /\ DemoRequest(i, "demo-admin-token")
    /\ Done(i) /\ req[i].status = 401

\* message.startsWith('Authentication required')
BeginsAuthenticationRequired(m) ==
  m \in {"Authentication required",
         "Authentication required - No Authorization header",
         "Authentication required for authorization check",
         "Authentication required for permission check"}

NoHeaderRequest(i) ==
  req[i].pc # "idle" /\ req[i].route = "auth" /\ ~req[i].hasHeader

\* C10: a request without an Authorization header is answered 401 with
\* success false and a message beginning "Authentication required"; no
\* verifier runs, no store is called and next() is not called.
C10_MissingHeader ==
  \A i \in Slots :
    NoHeaderRequest(i) =>
      /\ Done(i) /\ req[i].status = 401 /\ req[i].success = "false"
      /\ BeginsAuthenticationRequired(req[i].msg)
      /\ req[i].fbCalls = 0 /\ req[i].jwtCalls = <<>> /\ req[i].classifyCalls = 0
      /\ req[i].storeCalls = 0 /\ req[i].auditCalls = 0
      /\ req[i].nextCalled = 0 /\ req[i].reqUser = NoUser

C10_Witness ==
  \E i \in Slots :
    /\ NoHeaderRequest(i) /\ Done(i) /\ req[i].status = 401
    /\ env.firebase /\ env.jwtSecret /\ env.dev

\* a bearer string that is not three segments of base64-encoded JSON
Malformed(t) == t.segs # 3 \/ ~t.hdrOk \/ ~t.payOk

\* a request through authenticate with a bearer string the demo branch leaves
AuthRequest(i) ==
  /\ req[i].pc # "idle" /\ req[i].route = "auth"
  /\ req[i].hasHeader
  /\ ~(env.dev /\ req[i].tok.raw \in DemoTokens)

\* C11: a malformed bearer string is classified Unknown, reaches neither
\* verifyIdToken nor jwt.verify, and is answered 401.
C11_MalformedNoVerifier ==
  \A i \in Slots :
    (AuthRequest(i) /\ Malformed(req[i].tok)) =>
      /\ req[i].authType = "unknown"
      /\ req[i].fbCalls = 0
      /\ req[i].jwtCalls = <<>>
      /\ Done(i) /\ req[i].status = 401

\* C12: a token with alg RS256, a securetoken.google.com issuer, the firebase
\* claim and aud, auth_time, exp and iat is handed to the remote verifier
\* only: jwt.verify never sees it, with or without JWT_SECRET and with or
\* without the Firebase client.  (Stated for requests whose remote
\* verification has not failed; the failed ones are C1's.)
C12_RemoteIdentityRemoteOnly ==
  \A i \in Slots :
    (AuthRequest(i) /\ isFirebaseToken(req[i].tok) /\ ~req[i].fbFailed) =>
      /\ req[i].jwtCalls = <<>>
      /\ req[i].authType # "jwt"

\* C13: without JWT_SECRET a token that neither the demo nor the Firebase
\* scheme handles is answered 503 and jwt.verify is not attempted.
C13_NoSecretIs503 ==
  \A i \in Slots :
    ( /\ AuthRequest(i)
      /\ ~env.jwtSecret
      /\ ~(env.firebase /\ isFirebaseToken(req[i].tok)) )
    => /\ Done(i) /\ req[i].status = 503
       /\ req[i].jwtCalls = <<>>

\* C14: jwt.verify is tried with HS256, then HS512, then RS256, stops at the
\* first algorithm that verifies, and when none does the request is answered
\* 401 with no read or write of the Principal store.
C14_AlgorithmOrder ==
  [][\A i \in Slots :
       Len(req'[i].jwtCalls) > Len(req[i].jwtCalls) =>
         LET tried == req'[i].jwtCalls
             t == req'[i].tok
             k == Len(tried) IN
         /\ req[i].jwtCalls = <<>>
         /\ k <= 3
         /\ tried = SubSeq(<<"HS256", "HS512", "RS256">>, 1, k)
         /\ \A j \in 1..(k - 1) : ~jwtVerify(t, tried[j])
         /\ k < 3 => jwtVerify(t, tried[k])
         /\ ~jwtVerify(t, tried[k]) =>
              /\ req'[i].pc = "done" /\ req'[i].status = 401
              /\ req'[i].nextCalled = 0 /\ req'[i].reqUser = NoUser
              /\ req'[i].storeCalls = req[i].storeCalls
              /\ users' = users /\ nextId' = nextId
    ]_vars

C14_Witness ==
  \E i \in Slots :
    /\ req[i].route = "auth" /\ req[i].tok.alg = "HS512"
    /\ req[i].jwtCalls = <<"HS256", "HS512">>
    /\ Done(i) /\ req[i].nextCalled = 1 /\ req[i].reqAuthType = "jwt"

\* C15: the local-JWT path never creates a Principal; a locally verified
\* token whose subject (id, else sub, else userId) names no Principal is
\* answered 401 user-not-found and the store is unchanged.
C15_LocalJwtNeverProvisions ==
  [][\A i \in Slots :
       (req'[i].authType = "jwt" /\ req[i].pc # "handler") =>
         /\ users' = users /\ nextId' = nextId
         /\ ( /\ req[i].pc = "findById"
              /\ \A v \in users : v.id # subjectOf(req[i].tok) )
            => /\ req'[i].pc = "done" /\ req'[i].status = 401
               /\ req'[i].nextCalled = 0 /\ req'[i].reqUser = NoUser
               /\ subjectOf(req[i].tok) # BadId =>
                    req'[i].msg = "Invalid token - user not found"
    ]_vars

C15_Witness ==
  \E i \in Slots :
    /\ req[i].route = "auth" /\ req[i].authType = "jwt" /\ req[i].fbCalls = 0
    /\ subjectOf(req[i].tok) > 0
    /\ \A v \in users : v.id # subjectOf(req[i].tok)
    /\ users # {}
    /\ Done(i) /\ req[i].status = 401
    /\ req[i].msg = "Invalid token - user not found"

\* C16: every Principal the provisioner creates on a first remote login has
\* role user, permissions {read} and isActive true, whatever the claims of
\* the verified token.
C16_ProvisionedDefaults ==
  \A i \in Slots :
    ( /\ FirstTime(i)
      /\ req[i].authType = "firebase"
      /\ req[i].pc \in {"save", "audit", "done"}
      /\ req[i].user.id > 0 )
    => \A v \in users :
         v.id = req[i].user.id =>
           /\ v.role = "user"
           /\ v.permissions = {"read"}
           /\ v.isActive

\* C17: a failed audit write changes nothing of an otherwise successful
\* authenticate: next() is called, no error is answered, and req.user,
\* req.authType and req.token are what they are when the write succeeds.
C17_AuditFailureHarmless ==
  [][\A i \in Slots :
       (req[i].pc = "audit" /\ req'[i] # req[i]) =>
         /\ req'[i].nextCalled = req[i].nextCalled + 1
         /\ req'[i].reqUser = req[i].user
         /\ req'[i].reqAuthType = req[i].authType
         /\ req'[i].reqToken
         /\ req'[i].status \in {0, 403}
         /\ req[i].route = "auth" => req'[i].status = 0 /\ req'[i].pc = "done"
         /\ users' = users /\ nextId' = nextId
    ]_vars

\* a request that passed although its audit record was never written
C17_Witness ==
  \E i \in Slots :
    /\ req[i].route = "auth" /\ Done(i)
    /\ req[i].auditCalls = 1 /\ audit = {}
    /\ req[i].nextCalled = 1 /\ req[i].status = 0
    /\ req[i].reqUser = req[i].user /\ req[i].reqUser.id > 0

\* C18: the audit append is fire-and-forget: a request that passed
\* verification does not wait for the audit store, so while its write is
\* pending next() has been called, or a step that is not the store's answer
\* can still move the request.
C18_AuditFireAndForget ==
  \A i \in Slots :
    req[i].pc = "audit" =>
      \/ req[i].nextCalled >= 1
      \/ ENABLED (Next /\ ~AuditReturns(i, BOOLEAN) /\ req'[i] # req[i])

\* C19: the remote verification call is bounded by a request-scoped timeout:
\* a request waiting for verifyIdToken can be answered by a step that is not
\* the remote's answer, so it never stays pending on the remote alone.
C19_RemoteCallBounded ==
  \A i \in Slots :
    req[i].pc = "verifyIdToken" =>
      ENABLED (Next /\ ~VerifyIdTokenReturns(i) /\ req'[i] # req[i])

RequiredMissing == ~srv.mongoUri \/ ~srv.jwtSecret

NoFirebaseConfig == srv.file = "absent" /\ srv.fbEnv = "unset"

\* C20: without any Firebase configuration the server still starts (only the
\* remote scheme is unavailable); the process exits at boot only when a
\* required variable (MONGODB_URI, JWT_SECRET) is missing.
C20_BootWithoutFirebase ==
  /\ (RequiredMissing /\ srv.pc # "load") => (srv.pc = "exited" /\ srv.exitCode = 1)
  /\ (NoFirebaseConfig /\ ~RequiredMissing /\ srv.mongo = "ok") => srv.pc # "exited"

\* ------------------------------------------------------------ user routes
\* a route guard answered the request: next() of authenticate was called and
\* the 403 came before any handler ran
GuardRejected(i) ==
  /\ req[i].pc = "done" /\ req[i].route # "auth"
  /\ req[i].nextCalled = 1 /\ ~req[i].handled /\ req[i].status = 403

\* C21: the steps of one request run in the order classification,
\* verification, provisioning, authorization, audit: a request that a route
\* guard rejects with 403 has had no success audit event written for it.
C21_AuditAfterGuards ==
  \A i \in Slots : GuardRejected(i) => ~req[i].audited /\ req[i].auditCalls = 0

\* a request that went through authenticate
Authenticated(i) == req[i].pc # "idle" /\ req[i].route # "register"

\* C23: every authenticate invocation whose external calls return ends in
\* exactly one outcome: next() called exactly once and no response sent by
\* authenticate, or exactly one error response (401, 403 or 503) and no
\* next(); never both and never neither.
C23_OneOutcome ==
  \A i \in Slots :
    Authenticated(i) =>
      /\ req[i].nextCalled <= 1 /\ req[i].sent <= 1
      /\ ~Done(i) => req[i].sent = 0
      /\ (Done(i) /\ req[i].nextCalled = 0) =>
           (req[i].sent = 1 /\ req[i].status \in {401, 403, 503})
      /\ (Done(i) /\ req[i].route = "auth") =>
           (req[i].nextCalled = 1 <=> req[i].sent = 0)
      /\ (Done(i) /\ req[i].nextCalled = 1 /\ req[i].sent = 1) =>
           (req[i].handled \/ GuardRejected(i) \/ req[i].status = 400)

C23_Witness ==
  \E i \in Slots :
    /\ Done(i) /\ req[i].route = "auth" /\ req[i].fbFailed
    /\ req[i].jwtCalls # <<>>
    /\ req[i].nextCalled = 0 /\ req[i].sent = 1 /\ req[i].status = 401

\* req.user, req.authType and req.token are all unset
ContextUnset(i) ==
  req[i].reqUser = NoUser /\ req[i].reqAuthType = "" /\ ~req[i].reqToken

\* C24: the request context (req.user, req.authType, req.token) is attached
\* only after the token verified and the Principal was found active: while a
\* request is being verified and on every rejected request all three are
\* unset, and whenever next() is called req.authType is demo, firebase or jwt
\* and req.user is the resolved active Principal.
C24_ContextAfterVerification ==
  \A i \in Slots :
    Authenticated(i) =>
      /\ req[i].nextCalled = 0 /\ req[i].pc # "audit" => ContextUnset(i)
      /\ req[i].nextCalled = 1 \/ req[i].pc = "audit" =>
           /\ req[i].reqAuthType \in {"demo", "firebase", "jwt"}
           /\ req[i].reqAuthType = req[i].authType
           /\ req[i].reqToken
           /\ req[i].reqUser # NoUser /\ req[i].reqUser = req[i].user
           /\ req[i].reqUser.isActive

C24_Witness ==
  \E i \in Slots :
    /\ Done(i) /\ ResolvedInactive(i) /\ req[i].authType = "jwt"
    /\ req[i].status = 403 /\ req[i].nextCalled = 0
    /\ ContextUnset(i)

\* the routes declared with requireRole(['admin'])
AdminOnlyRoutes == {"createUser", "softDelete", "restore"}

\* C25: on the admin-only user routes (POST /, DELETE /:id, POST /:id/restore)
\* an authenticated active Principal with role admin passes the role guard
\* and reaches the handler, and a Principal with any other role is answered
\* 403.
C25_AdminOnlyRoutes ==
  \A i \in Slots :
    (Done(i) /\ req[i].route \in AdminOnlyRoutes /\ req[i].nextCalled = 1) =>
      IF req[i].reqUser.role = "admin"
      THEN ~GuardRejected(i) /\ (req[i].handled \/ req[i].status = 400)
      ELSE GuardRejected(i)

\* the step is an admin's reactivation of row id: POST /:id/activate, or a
\* PUT /:id whose body carries isActive true
Reactivation(id) ==
  \E i \in Slots :
    /\ req[i].pc = "handler" /\ req'[i].pc = "done"
    /\ req[i].target = id /\ req[i].reqUser.role = "admin"
    /\ req[i].route \in {"activate", "restore", "putV1"}

C27_RegisterRoleUser ==
  \A i \in Slots :
    (Done(i) /\ req[i].route = "register" /\ req[i].status = 201) =>
      /\ req[i].user.role = "user"
      /\ req[i].tok.uid = req[i].body.firebaseUID
      /\ \A v \in users :
           (v.firebaseUID = req[i].user.firebaseUID \/ v.email = req[i].user.email)
             <=> v.id = req[i].user.id

\* the step answers a PUT /:id of slot i whose caller is no admin
NonAdminPut(i) ==
  /\ req[i].pc = "handler" /\ req'[i].pc = "done"
  /\ req[i].route \in {"putV1", "putV2"}
  /\ req[i].reqUser.role # "admin"

\* C28: a PUT /:id by a non-admin Principal changes the role, permissions or
\* isActive of no Principal, the caller's own included: it changes at most
\* the name of the caller's own row, and is answered 403 for any other
\* target.
C28_NonAdminPut ==
  [][ \A i \in Slots :
        NonAdminPut(i) =>
          /\ \A v \in users : \E w \in users' :
               /\ w.id = v.id
               /\ w.role = v.role /\ w.permissions = v.permissions
               /\ w.isActive = v.isActive
               /\ w.firebaseUID = v.firebaseUID /\ w.email = v.email
               /\ v.id # req[i].reqUser.id => w = v
          /\ Cardinality(users') = Cardinality(users)
          /\ req[i].target # req[i].reqUser.id =>
               (req'[i].status = 403 /\ users' = users)
    ]_vars

C28_Witness ==
  \E i \in Slots :
    /\ Done(i) /\ req[i].route \in {"putV1", "putV2"} /\ req[i].handled
    /\ req[i].reqUser.role = "user" /\ req[i].target = req[i].reqUser.id
    /\ req[i].body.role = "admin" /\ req[i].body.isActive = "false"
    /\ req[i].status = 200
    /\ \E v \in users :
         /\ v.id = req[i].target /\ v.name = "New Name"
         /\ v.role = "user" /\ v.isActive /\ v.permissions = {"read"}

\* C30: every audit event written by authenticate carries as actor id the
\* firebase uid when the remote scheme verified the request and the local
\* Principal id otherwise, and carries the literal "unknown" for the source
\* address and the user agent when the request has none, so no record is
\* written with those fields empty.
C30_AuditActorAndDefaults ==
  [][ \A a \in audit' \ audit :
        /\ a.ipAddress # "" /\ a.userAgent # ""
        /\ \E i \in Slots :
             /\ req[i].pc = "audit"
             /\ a.authType = req[i].reqAuthType
             /\ a.userId = IF req[i].reqAuthType = "firebase" THEN req[i].tok.uid
                           ELSE ToString(req[i].reqUser.id)
             /\ a.ipAddress = IF req[i].ip = "" THEN "unknown" ELSE req[i].ip
             /\ a.userAgent = IF req[i].ua = "" THEN "unknown" ELSE req[i].ua
    ]_vars

C30_Witness ==
  /\ \E a \in audit :
       /\ a.authType = "firebase" /\ a.userId = "u2" /\ a.resourceId = "2"
       /\ a.ipAddress = "unknown" /\ a.userAgent = "unknown"
  /\ \E a \in audit :
       /\ a.authType = "jwt" /\ a.userId = "2"
       /\ a.ipAddress = "unknown" /\ a.userAgent = "unknown"

\* ------------------------------------------------- the Firebase Admin app
\* C22: under any interleaving of callers the remote-identity client is
\* initialized (admin.initializeApp) at most once per process and no call of
\* the init function re-initializes or deletes the existing app; stated for
\* the runs in which no initialization attempt failed.
C22_InitializedOnce ==
  ~fb.threw => (fb.inits <= 1 /\ fb.deletes = 0)

\* ------------------------------------------------------ the rate limiter
\* the entry of a store key still counts: present and its window not over
InWindow(sk) ==
  /\ rl.rateLimitStore[sk].present
  /\ rl.now - rl.rateLimitStore[sk].resetTime <= rateLimitConfigs(sk[1]).duration

\* C29: for every endpoint type and client key the requests allowed within
\* one window never exceed the configured points: an allowed request inside
\* the window adds one to the count, a request at the limit gets 429 with
\* Retry-After and leaves the counter alone, and the first request after the
\* window resets the count to 1 and is allowed; other keys are untouched.
C29_RateLimit ==
  [][ rl'.last.n # rl.last.n =>
        LET sk == rl'.last.key
            config == rateLimitConfigs(sk[1])
            data == rl.rateLimitStore[sk]
            after == rl'.rateLimitStore[sk] IN
        /\ \A k \in StoreKeys :
             /\ rl'.rateLimitStore[k].count <= rateLimitConfigs(k[1]).points
             /\ k # sk => rl'.rateLimitStore[k] = rl.rateLimitStore[k]
        /\ rl'.last.allowed <=> ~(InWindow(sk) /\ data.count >= config.points)
        /\ rl'.last.allowed =>
             /\ rl'.last.status = 0 /\ rl'.last.nextCalled
             /\ after.present
             /\ IF InWindow(sk)
                THEN after.count = data.count + 1 /\ after.resetTime = data.resetTime
                ELSE after.count = 1 /\ after.resetTime = rl.now
             /\ rl'.last.remaining = config.points - after.count
        /\ ~rl'.last.allowed =>
             /\ rl'.last.status = 429 /\ ~rl'.last.nextCalled
             /\ after = data
             /\ rl'.last.remaining = 0
             /\ rl'.last.retryAfter * 1000 >= data.resetTime + config.duration - rl.now
             /\ rl'.last.retryAfter * 1000 < data.resetTime + config.duration - rl.now + 1000
             /\ rl'.last.retryAfter >= 0
    ]_vars

C29_Witness ==
  /\ rl.last.status = 429 /\ rl.last.key = rl.followed
  /\ rl.rateLimitStore[rl.followed].count = rateLimitConfigs(rl.followed[1]).points
  /\ rl.last.retryAfter > 0
  /\ rl.other = 1

====
